---- MODULE Spec2Model ----
(***************************************************************************)
(* Model of socialplanner.py: a Streamlit script that keeps a collection   *)
(* of social-media posts in st.session_state, persists it to a JSON        *)
(* snapshot, filters it from the sidebar, shows a month calendar and       *)
(* aggregates engagement metrics.                                          *)
(*                                                                         *)
(* Streamlit re-executes the whole script from the top on every widget     *)
(* event and on every st.rerun().  One action of this model is one such    *)
(* script run.                                                             *)
(*                                                                         *)
(* Encodings.                                                              *)
(*  - A datetime.date is a tuple <<year, month, day>>.                     *)
(*  - The text "YYYY-MM-DD" is the number YYYYMMDD: the text is fixed      *)
(*    width and zero padded, so the lexical order of the texts is the      *)
(*    numeric order of the numbers.                                        *)
(*  - A DataFrame is a sequence of rows [index |-> label, data |-> record] *)
(*    (labels are 0-based as in pandas).                                   *)
(*  - The snapshot file is [state |-> "missing" | "corrupt" | "ok",        *)
(*    data |-> the sequence of records it holds].                          *)
(***************************************************************************)
EXTENDS Integers, Sequences, FiniteSets, TLC

(* ------------------------------ bounds --------------------------------- *)

\* Number of posts a session may create through the Create Post form.
MaxCreates == 1
\* The calendar can be navigated this many months away from today's month.
NavSpan == 2

(* ------------------------- datetime / calendar ------------------------- *)

\* calendar.isleap
isleap(y) == (y % 4 = 0) /\ ((y % 100 # 0) \/ (y % 400 = 0))

\* calendar.mdays (January .. December of a non-leap year)
mdays == <<31, 28, 31, 30, 31, 30, 31, 31, 30, 31, 30, 31>>

\* A variant of DaysInMonth without the leap day.
DaysInMonth_no_leap(y, m) == mdays[m]

\* calendar.monthrange(y, m)[1]
DaysInMonth(y, m) == mdays[m] + (IF m = 2 /\ isleap(y) THEN 1 ELSE 0)

\* datetime._days_before_month
RECURSIVE DaysBeforeMonth(_, _)
DaysBeforeMonth(y, m) ==
    IF m = 1 THEN 0 ELSE DaysBeforeMonth(y, m - 1) + DaysInMonth(y, m - 1)

\* datetime._days_before_year
DaysBeforeYear(y) ==
    (y - 1) * 365 + ((y - 1) \div 4) - ((y - 1) \div 100) + ((y - 1) \div 400)

\* date.toordinal: 1 is 0001-01-01
toordinal(d) == DaysBeforeYear(d[1]) + DaysBeforeMonth(d[1], d[2]) + d[3]

\* date.weekday: Monday is 0
weekday(d) == (toordinal(d) + 6) % 7

\* date + timedelta(days=1)
NextDay(d) ==
    IF d[3] < DaysInMonth(d[1], d[2]) THEN <<d[1], d[2], d[3] + 1>>
    ELSE IF d[2] < 12 THEN <<d[1], d[2] + 1, 1>>
    ELSE <<d[1] + 1, 1, 1>>

\* date - timedelta(days=1)
PrevDay(d) ==
    IF d[3] > 1 THEN <<d[1], d[2], d[3] - 1>>
    ELSE IF d[2] > 1 THEN <<d[1], d[2] - 1, DaysInMonth(d[1], d[2] - 1)>>
    ELSE <<d[1] - 1, 12, 31>>

\* date + timedelta(days=n), n of either sign; going forward, the days left
\* in the month of d are taken in one step
RECURSIVE AddDays(_, _)
AddDays(d, n) ==
    IF n = 0 THEN d
    ELSE IF n > 0
    THEN LET left == DaysInMonth(d[1], d[2]) - d[3]
         IN  IF n <= left THEN <<d[1], d[2], d[3] + n>>
             ELSE AddDays(NextDay(<<d[1], d[2], d[3] + left>>), n - left - 1)
    ELSE AddDays(PrevDay(d), n + 1)

\* date.strftime("%Y-%m-%d") and f"{year}-{month:02d}-{day:02d}"
strftime(d) == d[1] * 10000 + d[2] * 100 + d[3]

\* datetime.strptime(s, "%Y-%m-%d").date()
strptime(s) == <<s \div 10000, (s \div 100) % 100, s % 100>>

\* A sequence of n zeros (the cells outside the month).
Zeros(n) == [i \in 1..n |-> 0]

\* calendar.Calendar(firstweekday=0).itermonthdays(y, m), as a list
itermonthdays(y, m) ==
    LET day1 == weekday(<<y, m, 1>>)
        ndays == DaysInMonth(y, m)
        days_before == (day1 - 0) % 7
        days_after == (0 - day1 - ndays) % 7
    IN  Zeros(days_before) \o [i \in 1..ndays |-> i] \o Zeros(days_after)

\* calendar.monthcalendar(y, m): the weeks of the month, Monday first
monthcalendar(y, m) ==
    LET days == itermonthdays(y, m)
    IN  [w \in 1..(Len(days) \div 7) |-> SubSeq(days, 7 * (w - 1) + 1, 7 * w)]

(* ------------------------------ posts ---------------------------------- *)

\* The platforms of the Create Post form, in the order of the selectbox.
Platforms == <<"Facebook", "Instagram", "Twitter", "LinkedIn", "TikTok", "Pinterest">>

\* The statuses of the Create Post form.
Statuses == <<"Draft", "Scheduled", "Published">>

\* The views of the navigation radio.
view_options == <<"Calendar", "Create Post", "Analytics", "Settings">>

\* The set of the elements of a sequence.
Range(s) == {s[i] : i \in 1..Len(s)}

\* pd.DataFrame(list of records): rows labelled 0 .. n-1
DataFrame(records) ==
    [i \in 1..Len(records) |-> [index |-> i - 1, data |-> records[i]]]

\* df.to_dict(orient="records"): the records, without the index labels
to_dict(df) == [i \in 1..Len(df) |-> df[i].data]

\* pd.concat([df, pd.DataFrame([new_post])], ignore_index=True)
concat(df, new_post) == DataFrame(Append(to_dict(df), new_post))

\* The empty DataFrame of load_data and of Reset All Data.
EmptyFrame == DataFrame(<<>>)

\* The snapshot file social_media_posts.json.
Snapshot(state, data) == [state |-> state, data |-> data]

\* load_data: the records of a readable snapshot; the empty frame when the file
\* is missing or cannot be parsed (the error is shown, not raised).
load_data(file) ==
    IF file.state = "ok" THEN DataFrame(file.data) ELSE EmptyFrame

\* What a call of save_data can do to the file: write it, fail at open()
\* (the file is left alone), or fail in json.dump after open(.., "w") has
\* truncated it.
SaveOutcomes == {"written", "open_failed", "dump_failed"}

\* A variant of save_data that reports success without writing the file.
save_data_unwritten(df, file, outcome) ==
    [file |-> file, ok |-> outcome = "written"]

\* save_data(df): the file after the call and the value returned.
save_data(df, file, outcome) ==
    CASE outcome = "written" ->
            [file |-> Snapshot("ok", to_dict(df)), ok |-> TRUE]
      [] outcome = "open_failed" ->
            [file |-> file, ok |-> FALSE]
      [] OTHER ->
            [file |-> Snapshot("corrupt", <<>>), ok |-> FALSE]

(* ---------------------------- demo seeding ----------------------------- *)

demo_platforms == <<"Instagram", "Facebook", "Twitter", "LinkedIn", "TikTok">>
demo_statuses == <<"Published", "Scheduled", "Draft", "Published", "Scheduled">>

\* range(20) of the demo loop
DemoCount == 20

\* len(demo_dates): range(-5, 15)
DemoDateCount == 20

\* demo_dates: today - 5 .. today + 14
demo_dates(now) == [k \in 1..DemoDateCount |-> AddDays(now, k - 6)]

\* The i-th demo record, i in 0 .. 19.
demo_post(i, now) ==
    LET platform == demo_platforms[(i % Len(demo_platforms)) + 1]
        status == demo_statuses[(i % Len(demo_statuses)) + 1]
        published == status = "Published"
    IN  [title |-> "Demo Post " \o ToString(i + 1),
         content |-> "This is example content for " \o platform \o " post #"
                       \o ToString(i + 1) \o ". #demo #socialmedia",
         platform |-> platform,
         scheduled_date |->
             strftime(demo_dates(now)[(i % DemoDateCount) + 1]),
         scheduled_time |-> ToString(8 + (i % 8)) \o ":00",
         status |-> status,
         image |-> "None",
         likes |-> IF published THEN 100 + 50 * (i % 7) ELSE 0,
         comments |-> IF published THEN 10 + 5 * (i % 5) ELSE 0,
         shares |-> IF published THEN 5 + 3 * (i % 4) ELSE 0,
         reach |-> IF published THEN 500 + 100 * (i % 10) ELSE 0]

\* demo_data as a DataFrame (the list is built element by element, as the loop
\* does, so that its rows are values)
RECURSIVE demo_list(_, _)
demo_list(n, now) ==
    IF n = 0 THEN <<>> ELSE Append(demo_list(n - 1, now), demo_post(n - 1, now))

demo_data(now) == DataFrame(demo_list(DemoCount, now))

(* ------------------------------ filters -------------------------------- *)

\* df[col].unique() as a set
unique(df, col) == {df[i].data[col] : i \in 1..Len(df)}

\* The options of a sidebar multiselect: "All" and the values in the store.
filter_options(df, col) == {"All"} \cup unique(df, col)

\* df[df[col].isin(selection)]
isin(df, col, selection) ==
    LET Keep(r) == r.data[col] \in selection
    IN  SelectSeq(df, Keep)

\* A variant of filter_by in which an empty selection matches nothing.
filter_by_empty_matches_nothing(df, col, selection) ==
    IF "All" \notin selection THEN isin(df, col, selection) ELSE df

\* A variant of filter_by that does not know "All".
filter_by_without_all(df, col, selection) ==
    IF selection # {} THEN isin(df, col, selection) ELSE df

\* One dimension of the quick filters: `if sel and "All" not in sel`.
filter_by(df, col, selection) ==
    IF selection # {} /\ "All" \notin selection
    THEN isin(df, col, selection)
    ELSE df

\* filtered_df
filtered(df, platform_sel, status_sel) ==
    filter_by(filter_by(df, "platform", platform_sel), "status", status_sel)

(* ----------------------------- analytics ------------------------------- *)

\* A variant of published that keeps Draft rows as well.
published_or_draft(df) == isin(df, "status", {"Published", "Draft"})

\* published_posts
published(df) == isin(df, "status", {"Published"})

\* df[col].sum()
RECURSIVE column_sum(_, _)
column_sum(df, col) ==
    IF df = <<>> THEN 0 ELSE Head(df).data[col] + column_sum(Tail(df), col)

\* The platform names in the order groupby sorts its keys (string order).
sorted_platforms ==
    <<"Facebook", "Instagram", "LinkedIn", "Pinterest", "TikTok", "Twitter">>

\* likes + comments + shares divided by reach, times 100, in float arithmetic:
\* 0/0 is NaN and x/0 is inf; pandas raises nothing.
engagement_rate(likes, comments, shares, reach) ==
    LET eng == likes + comments + shares
    IN  IF reach # 0 THEN [kind |-> "finite", num |-> eng * 100, den |-> reach]
        ELSE IF eng = 0 THEN [kind |-> "nan", num |-> 0, den |-> 0]
        ELSE [kind |-> "inf", num |-> 0, den |-> 0]

\* One row of platform_data.
platform_row(df, p) ==
    LET g == isin(df, "platform", {p})
        likes == column_sum(g, "likes")
        comments == column_sum(g, "comments")
        shares == column_sum(g, "shares")
        reach == column_sum(g, "reach")
    IN  [platform |-> p, likes |-> likes, comments |-> comments,
         shares |-> shares, reach |-> reach,
         engagement_rate |-> engagement_rate(likes, comments, shares, reach)]

\* platform_data: groupby("platform").agg(sum), one row per platform present,
\* in key order, with the engagement_rate column.
platform_data(df) ==
    LET Present(p) == p \in unique(df, "platform")
        keys == SelectSeq(sorted_platforms, Present)
    IN  [k \in 1..Len(keys) |-> platform_row(df, keys[k])]

\* total_engagement of a row
total_engagement(r) == r.data.likes + r.data.comments + r.data.shares

\* The results sort_values("total_engagement", ascending=False) can give.  The
\* default kind is quicksort, which is not stable: rows of equal key come out
\* in an order the build decides.
RECURSIVE sort_outcomes(_)
sort_outcomes(df) ==
    IF df = <<>> THEN {<<>>}
    ELSE LET n == Len(df)
             top == {i \in 1..n :
                        \A j \in 1..n : total_engagement(df[j]) <= total_engagement(df[i])}
             Without(i) == [k \in 1..(n - 1) |-> IF k < i THEN df[k] ELSE df[k + 1]]
         IN  UNION {{<<df[i]>> \o rest : rest \in sort_outcomes(Without(i))} : i \in top}

\* head(5)
TopN == 5

\* df.head(n)
head(df, n) == SubSeq(df, 1, IF Len(df) < n THEN Len(df) ELSE n)

(* ------------------------------ state ---------------------------------- *)

VARIABLES
    pc,               \* "start": no script run yet; "rerun": st.rerun() was
                      \* called by the last run; "idle": the last run completed
    today,            \* datetime.now().date()
    snapshot,         \* the file social_media_posts.json
    posts_df,         \* st.session_state.posts_df
    current_view,     \* st.session_state.current_view
    selected_date,    \* st.session_state.selected_date
    calendar_month,   \* st.session_state.calendar_month, 0 while absent
    calendar_year,    \* st.session_state.calendar_year, 0 while absent
    platform_filter,  \* value of the Platform multiselect
    status_filter,    \* value of the Status multiselect
    platform_opts,    \* options the Platform multiselect was rendered with
    status_opts,      \* options the Status multiselect was rendered with
    uploaded_file,    \* value of the import file_uploader
    rendered,         \* the view whose body the last run rendered, or "none"
    filtered_df,      \* filtered_df of the last run (empty if not computed)
    cal,              \* cal of the last run (empty if not computed)
    month_end,        \* month_end of the last run (0 if not computed)
    month_posts,      \* month_posts of the last run (empty if not computed)
    day_cells,        \* the day cells the last run rendered, in order
    platform_rows,    \* platform_data of the last run (empty if not computed)
    top_posts,        \* top_posts of the last run (empty if not computed)
    creates,          \* number of posts created so far
    save_failed,      \* some save_data call has returned False
    last_event        \* the widget event that started the last run

vars == <<pc, today, snapshot, posts_df, current_view, selected_date,
          calendar_month, calendar_year, platform_filter, status_filter,
          platform_opts, status_opts, uploaded_file, rendered, filtered_df,
          cal, month_end, month_posts, day_cells, platform_rows, top_posts,
          creates, save_failed, last_event>>

\* The file_uploader with no file in it.
NoFile == [kind |-> "none", valid |-> FALSE, records |-> <<>>]

\* The first day cell of the grid loop: the first non-zero entry of cal, week by
\* week.
first_day_cell(weeks) ==
    LET w == CHOOSE i \in 1..Len(weeks) :
                 /\ \E c \in 1..7 : weeks[i][c] # 0
                 /\ \A j \in 1..(i - 1) : \A c \in 1..7 : weeks[j][c] = 0
        c == CHOOSE k \in 1..7 :
                 weeks[w][k] # 0 /\ \A j \in 1..(k - 1) : weeks[w][j] = 0
    IN  weeks[w][c]

\* month_start: the text of the first day of the displayed month
month_start(y, m) == strftime(<<y, m, 1>>)

\* month_end: 32 days after month_start, moved to the first day of that month,
\* less one day, as text
month_end_of(y, m) ==
    LET later == AddDays(strptime(month_start(y, m)), 32)
    IN  strftime(PrevDay(<<later[1], later[2], 1>>))

\* month_posts: the rows of filtered_df dated first .. last, the texts
\* month_start and month_end
month_posts_of(fdf, first, last) ==
    SelectSeq(fdf, LAMBDA r : /\ r.data.scheduled_date >= first
                              /\ r.data.scheduled_date <= last)

\* day_posts: the rows of month_posts dated date_str
day_posts(mp, date_str) == SelectSeq(mp, LAMBDA r : r.data.scheduled_date = date_str)

\* What a day cell shows: the day, day_post_count and the platform indicators.
day_cell(day, posts) ==
    [day |-> day, day_post_count |-> Len(posts), platforms |-> unique(posts, "platform")]

\* A variant of previous_month that forgets the year at the January boundary.
previous_month_same_year(y, m) == IF m = 1 THEN <<y, 12>> ELSE <<y, m - 1>>

\* Previous Month button
previous_month(y, m) == IF m = 1 THEN <<y - 1, 12>> ELSE <<y, m - 1>>

\* Next Month button
next_month(y, m) == IF m = 12 THEN <<y + 1, 1>> ELSE <<y, m + 1>>

\* new_post of the Create Post form
new_post(form) ==
    [title |-> form.title,
     content |-> form.content,
     platform |-> form.platform,
     scheduled_date |-> strftime(form.date),
     scheduled_time |-> form.time,
     status |-> form.status,
     image |-> "None",
     likes |-> 0, comments |-> 0, shares |-> 0, reach |-> 0]

\* A variant of import_replaces that replaces the store as soon as a file parses.
import_replaces_on_upload(type, upload) ==
    upload.kind # "none" /\ upload.valid

\* Whether the Settings run replaces the store: the upload parsed and the
\* Replace button was clicked in this run.
import_replaces(type, upload) ==
    upload.kind # "none" /\ upload.valid /\ type = "replace"

\* The value a sidebar multiselect returns in a run: a multiselect rendered with
\* other options than in the run before is a new widget and returns its default.
multiselect(old_opts, opts, value, event, type, arg) ==
    IF opts # old_opts THEN {"All"}
    ELSE IF event = type THEN arg
    ELSE value

(* --------------------------- the view bodies --------------------------- *)

\* The values a save_data call of this run may produce: `saves` tells whether
\* the run makes the call at all.
outcomes(saves) == IF saves THEN SaveOutcomes ELSE {"written"}

\* Calendar view.  A click on Previous/Next Month moves the month and reruns.
\* Otherwise the grid is built and its cells are rendered in order; the value
\* cols[i].markdown(..) returns is a Streamlit element container, which is
\* truthy, so the first day cell sets selected_date and reruns.
CalendarView(type, df, file, failed) ==
    LET cm == IF calendar_month = 0 THEN today[2] ELSE calendar_month
        cy == IF calendar_year = 0 THEN today[1] ELSE calendar_year
    IN  /\ posts_df' = df
        /\ snapshot' = file
        /\ save_failed' = failed
        /\ rendered' = "Calendar"
        /\ pc' = "rerun"
        /\ UNCHANGED <<uploaded_file, creates>>
        /\ platform_rows' = <<>>
        /\ top_posts' = <<>>
        /\ IF type = "previous_month"
           THEN /\ calendar_year' = previous_month(cy, cm)[1]
                /\ calendar_month' = previous_month(cy, cm)[2]
                /\ cal' = <<>>
                /\ month_end' = 0
                /\ month_posts' = <<>>
                /\ day_cells' = <<>>
                /\ UNCHANGED selected_date
           ELSE IF type = "next_month"
           THEN /\ calendar_year' = next_month(cy, cm)[1]
                /\ calendar_month' = next_month(cy, cm)[2]
                /\ cal' = <<>>
                /\ month_end' = 0
                /\ month_posts' = <<>>
                /\ day_cells' = <<>>
                /\ UNCHANGED selected_date
           ELSE /\ calendar_year' = cy
                /\ calendar_month' = cm
                /\ cal' = monthcalendar(cy, cm)
                /\ month_end' = month_end_of(cy, cm)
                /\ month_posts' = month_posts_of(filtered_df', month_start(cy, cm), month_end')
                /\ \E day \in {first_day_cell(cal')} :
                      LET date_str == strftime(<<cy, cm, day>>)
                      IN  /\ day_cells' = <<day_cell(day, day_posts(month_posts', date_str))>>
                          /\ selected_date' = strptime(date_str)

\* Create Post view.  A submitted form with a title and a content appends the
\* new post and saves; the script reruns only when the save succeeded.
CreatePostView(type, arg, df, file, failed) ==
    LET append == type = "save_post" /\ arg.title # "" /\ arg.content # ""
        df2 == IF append THEN concat(df, new_post(arg)) ELSE df
    IN  \E o2 \in outcomes(append) :
          LET saved == IF append THEN save_data(df2, file, o2)
                       ELSE [file |-> file, ok |-> TRUE]
          IN  /\ posts_df' = df2
              /\ snapshot' = saved.file
              /\ save_failed' = (failed \/ ~saved.ok)
              /\ creates' = IF append THEN creates + 1 ELSE creates
              /\ rendered' = "Create Post"
              /\ pc' = IF append /\ saved.ok THEN "rerun" ELSE "idle"
              /\ uploaded_file' = IF append /\ saved.ok THEN uploaded_file ELSE NoFile
              /\ cal' = <<>>
              /\ month_end' = 0
              /\ month_posts' = <<>>
              /\ day_cells' = <<>>
              /\ platform_rows' = <<>>
              /\ top_posts' = <<>>
              /\ UNCHANGED <<selected_date, calendar_month, calendar_year>>

\* Analytics view, over the Published rows of filtered_df.
AnalyticsView(fdf, df, file, failed) ==
    LET published_posts == published(fdf)
    IN  /\ posts_df' = df
        /\ snapshot' = file
        /\ save_failed' = failed
        /\ rendered' = "Analytics"
        /\ pc' = "idle"
        /\ uploaded_file' = NoFile
        /\ cal' = <<>>
        /\ month_end' = 0
        /\ month_posts' = <<>>
        /\ day_cells' = <<>>
        /\ IF Len(published_posts) = 0
           THEN platform_rows' = <<>> /\ top_posts' = <<>>
           ELSE /\ platform_rows' = platform_data(published_posts)
                /\ top_posts' \in {head(s, TopN) : s \in sort_outcomes(published_posts)}
        /\ UNCHANGED <<selected_date, calendar_month, calendar_year, creates>>

\* Settings view: import (upload, then Replace) and reset.
SettingsView(type, arg, df, file, failed) ==
    LET upload == IF type = "upload" THEN arg ELSE uploaded_file
        replace == import_replaces(type, upload)
        reset == ~replace /\ type = "reset"
        df2 == IF replace THEN DataFrame(upload.records)
               ELSE IF reset THEN EmptyFrame
               ELSE df
    IN  \E o2 \in outcomes(replace \/ reset) :
          LET saved == IF replace \/ reset THEN save_data(df2, file, o2)
                       ELSE [file |-> file, ok |-> TRUE]
          IN  /\ posts_df' = df2
              /\ snapshot' = saved.file
              /\ save_failed' = (failed \/ ~saved.ok)
              /\ uploaded_file' = upload
              /\ rendered' = "Settings"
              /\ pc' = IF replace \/ reset THEN "rerun" ELSE "idle"
              /\ cal' = <<>>
              /\ month_end' = 0
              /\ month_posts' = <<>>
              /\ day_cells' = <<>>
              /\ platform_rows' = <<>>
              /\ top_posts' = <<>>
              /\ UNCHANGED <<selected_date, calendar_month, calendar_year, creates>>

(* ---------------------------- one script run --------------------------- *)

\* The part of the script after the demo seeding: sidebar and view body.  df
\* and file are the store and the snapshot the top of the script left.
Page(type, arg, view0, df, file, failed) ==
    LET selected_view == IF type = "select_view" THEN arg ELSE view0
        p_opts == filter_options(df, "platform")
        s_opts == filter_options(df, "status")
        pf == multiselect(platform_opts, p_opts, platform_filter, "set_platform", type, arg)
        sf == multiselect(status_opts, s_opts, status_filter, "set_status", type, arg)
        fdf == filtered(df, pf, sf)
    IN  IF selected_view # view0
        THEN \* st.rerun() of the navigation radio
             /\ current_view' = selected_view
             /\ pc' = "rerun"
             /\ posts_df' = df
             /\ snapshot' = file
             /\ save_failed' = failed
             /\ rendered' = "none"
             /\ filtered_df' = <<>>
             /\ cal' = <<>>
             /\ month_end' = 0
             /\ month_posts' = <<>>
             /\ day_cells' = <<>>
             /\ platform_rows' = <<>>
             /\ top_posts' = <<>>
             /\ UNCHANGED <<selected_date, calendar_month, calendar_year,
                            platform_filter, status_filter, platform_opts,
                            status_opts, uploaded_file, creates>>
        ELSE /\ current_view' = view0
             /\ platform_opts' = p_opts
             /\ status_opts' = s_opts
             /\ platform_filter' = pf
             /\ status_filter' = sf
             /\ filtered_df' = fdf
             /\ CASE view0 = "Calendar" -> CalendarView(type, df, file, failed)
                  [] view0 = "Create Post" -> CreatePostView(type, arg, df, file, failed)
                  [] view0 = "Analytics" -> AnalyticsView(fdf, df, file, failed)
                  [] OTHER -> SettingsView(type, arg, df, file, failed)

\* One execution of the script, started by the widget event `type` (with its
\* value `arg`), or by nothing ("none": the first run, or a rerun).
ScriptRun(type, arg) ==
    LET first == pc = "start"
        \* session state initialisation
        df0 == IF first THEN load_data(snapshot) ELSE posts_df
        view0 == IF first THEN "Calendar" ELSE current_view
        \* demo data if the dataframe is empty
        seed == Len(df0) = 0
    IN  /\ today' = today
        /\ last_event' = type
        /\ IF seed
           THEN LET df1 == demo_data(today)
                IN  \E o1 \in SaveOutcomes :
                      LET saved == save_data(df1, snapshot, o1)
                      IN  Page(type, arg, view0, df1, saved.file,
                               save_failed \/ ~saved.ok)
           ELSE Page(type, arg, view0, df0, snapshot, save_failed)

(* ------------------------------- inputs -------------------------------- *)

\* A post record with the given platform, status, date and metrics.
Post(title, platform, status, date, likes, comments, shares, reach) ==
    [title |-> title, content |-> "text", platform |-> platform,
     scheduled_date |-> strftime(date), scheduled_time |-> "09:30",
     status |-> status, image |-> "None",
     likes |-> likes, comments |-> comments, shares |-> shares, reach |-> reach]

\* The day "now" is in a session of Spec.
Todays == {<<2024, 1, 30>>}

\* A collection saved by an earlier session.
SavedPosts ==
    <<Post("a", "Twitter", "Published", <<2024, 1, 30>>, 10, 2, 1, 50),
      Post("b", "Pinterest", "Scheduled", <<2024, 2, 1>>, 0, 0, 0, 0)>>

\* The snapshot files a session may start with.
InitSnapshots ==
    {Snapshot("missing", <<>>), Snapshot("corrupt", <<>>), Snapshot("ok", <<>>),
     Snapshot("ok", SavedPosts)}

\* Records of an import file: two Published posts of equal engagement, a
\* Published post with engagement but no reach, and a Draft.
ImportedPosts ==
    <<Post("i1", "Facebook", "Published", <<2024, 2, 29>>, 5, 1, 0, 20),
      Post("i2", "Instagram", "Published", <<2024, 2, 29>>, 4, 1, 1, 30),
      Post("i3", "LinkedIn", "Published", <<2024, 3, 1>>, 7, 0, 0, 0),
      Post("i4", "Facebook", "Draft", <<2024, 1, 31>>, 0, 0, 0, 0)>>

\* The files offered to the import file_uploader: a JSON file, an empty CSV
\* file and a file that does not parse.
ImportFiles ==
    {[kind |-> "json", valid |-> TRUE, records |-> ImportedPosts],
     [kind |-> "csv", valid |-> TRUE, records |-> <<>>],
     [kind |-> "json", valid |-> FALSE, records |-> <<>>]}

\* The forms submitted in the Create Post view.
PostForms ==
    {[title |-> t, content |-> "Hello #launch", platform |-> p,
      date |-> <<2024, 2, 29>>, time |-> "09:30", status |-> st] :
        t \in {"", "Launch"}, p \in {"Pinterest"}, st \in {"Published", "Draft"}}
    \cup {[title |-> "Launch", content |-> "", platform |-> "Pinterest",
           date |-> <<2024, 2, 29>>, time |-> "09:30", status |-> "Draft"]}

\* The selections tried in the Platform multiselect.
PlatformSelections == {{}, {"All"}, {"Instagram"}, {"Instagram", "Pinterest"}}

\* The selections tried in the Status multiselect.
StatusSelections == {{}, {"All"}, {"Published"}}

(* ------------------------------- actions ------------------------------- *)

\* A new session: nothing is in st.session_state, no widget was rendered.
InitWith(days, files) ==
    /\ pc = "start"
    /\ today \in days
    /\ snapshot \in files
    /\ posts_df = <<>>
    /\ current_view = "Calendar"
    /\ selected_date = <<0, 0, 0>>
    /\ calendar_month = 0
    /\ calendar_year = 0
    /\ platform_filter = {"All"}
    /\ status_filter = {"All"}
    /\ platform_opts = {}
    /\ status_opts = {}
    /\ uploaded_file = NoFile
    /\ rendered = "none"
    /\ filtered_df = <<>>
    /\ cal = <<>>
    /\ month_end = 0
    /\ month_posts = <<>>
    /\ day_cells = <<>>
    /\ platform_rows = <<>>
    /\ top_posts = <<>>
    /\ creates = 0
    /\ save_failed = FALSE
    /\ last_event = "none"

Init == InitWith(Todays, InitSnapshots)

\* The first run of a session.
Startup ==
    /\ pc = "start"
    /\ ScriptRun("none", <<>>)

\* The run st.rerun() asked for.
Rerun ==
    /\ pc = "rerun"
    /\ ScriptRun("none", <<>>)

\* The user picks another view in the navigation radio.
SelectView(v) ==
    /\ pc # "start"
    /\ v # current_view
    /\ ScriptRun("select_view", v)

\* The user changes the Platform multiselect.
SetPlatformFilter(sel) ==
    /\ rendered # "none"
    /\ sel \subseteq platform_opts
    /\ sel # platform_filter
    /\ ScriptRun("set_platform", sel)

\* The user changes the Status multiselect.
SetStatusFilter(sel) ==
    /\ rendered # "none"
    /\ sel \subseteq status_opts
    /\ sel # status_filter
    /\ ScriptRun("set_status", sel)

\* Months between today's month and the month (y, m).
months_from_today(y, m) == (y * 12 + m) - (today[1] * 12 + today[2])

\* The user clicks Previous Month.
PreviousMonth ==
    /\ rendered = "Calendar"
    /\ months_from_today(calendar_year, calendar_month) > 0 - NavSpan
    /\ ScriptRun("previous_month", <<>>)

\* The user clicks Next Month.
NextMonth ==
    /\ rendered = "Calendar"
    /\ months_from_today(calendar_year, calendar_month) < NavSpan
    /\ ScriptRun("next_month", <<>>)

\* The user submits the Create Post form.
SavePost(form) ==
    /\ rendered = "Create Post"
    /\ creates < MaxCreates
    /\ ScriptRun("save_post", form)

\* The user puts a file into the import file_uploader.
UploadFile(f) ==
    /\ rendered = "Settings"
    /\ f # uploaded_file
    /\ ScriptRun("upload", f)

\* The user clicks Replace Current Data with Imported Data.
ReplaceData ==
    /\ rendered = "Settings"
    /\ uploaded_file.valid
    /\ ScriptRun("replace", <<>>)

\* The user clicks Reset All Data.
ResetAllData ==
    /\ rendered = "Settings"
    /\ ScriptRun("reset", <<>>)

Next ==
    \/ Startup
    \/ Rerun
    \/ \E v \in Range(view_options) : SelectView(v)
    \/ \E sel \in PlatformSelections : SetPlatformFilter(sel)
    \/ \E sel \in StatusSelections : SetStatusFilter(sel)
    \/ PreviousMonth
    \/ NextMonth
    \/ \E form \in PostForms : SavePost(form)
    \/ \E f \in ImportFiles : UploadFile(f)
    \/ ReplaceData
    \/ ResetAllData

Spec == Init /\ [][Next]_vars

(* --------------------------- specifications ---------------------------- *)

\* The days "now" is in a session of SpecCalendar: the 15th of every month of
\* 2000, 2023, 2024 and 2100.
CalendarTodays == {<<y, m, 15>> : y \in {2000, 2023, 2024, 2100}, m \in 1..12}

\* Sessions that browse the calendar.
InitCalendar ==
    InitWith(CalendarTodays, {Snapshot("ok", SavedPosts), Snapshot("missing", <<>>)})

NextCalendar ==
    \/ Startup
    \/ Rerun
    \/ \E v \in Range(view_options) : SelectView(v)
    \/ PreviousMonth
    \/ NextMonth

SpecCalendar == InitCalendar /\ [][NextCalendar]_vars

\* Sessions that work on the store: create, import, reset.
NextStore ==
    \/ Startup
    \/ Rerun
    \/ \E v \in Range(view_options) : SelectView(v)
    \/ \E form \in PostForms : SavePost(form)
    \/ \E f \in ImportFiles : UploadFile(f)
    \/ ReplaceData
    \/ ResetAllData

SpecStore == Init /\ [][NextStore]_vars

\* The posts the snapshots of SpecAnalytics are made of: two Published posts of
\* equal engagement, a Published post with no engagement and no reach (what
\* the Create Post form makes), one with engagement and no reach, and a Draft
\* that has likes and reach.
PostPool ==
    {Post("A", "Facebook", "Published", <<2024, 1, 30>>, 5, 1, 0, 20),
     Post("B", "Instagram", "Published", <<2024, 1, 31>>, 4, 1, 1, 30),
     Post("C", "Instagram", "Published", <<2024, 2, 1>>, 0, 0, 0, 0),
     Post("D", "Twitter", "Published", <<2024, 2, 1>>, 7, 0, 0, 0),
     Post("E", "Twitter", "Draft", <<2024, 2, 3>>, 3, 0, 0, 9)}

\* Longest collection made of PostPool.
MaxRows == 3

\* Six Published posts of engagement 50, 200, 10, 75, 5, 300.
RankedPosts ==
    <<Post("r1", "Facebook", "Published", <<2024, 1, 30>>, 40, 5, 5, 100),
      Post("r2", "Instagram", "Published", <<2024, 1, 30>>, 150, 30, 20, 100),
      Post("r3", "Twitter", "Published", <<2024, 1, 30>>, 10, 0, 0, 100),
      Post("r4", "Facebook", "Published", <<2024, 1, 30>>, 70, 5, 0, 100),
      Post("r5", "Instagram", "Published", <<2024, 1, 30>>, 5, 0, 0, 100),
      Post("r6", "Twitter", "Published", <<2024, 1, 30>>, 250, 40, 10, 100)>>

\* The snapshots a session of SpecAnalytics starts with: none (the demo data
\* is seeded), RankedPosts, and every collection of 1..MaxRows pool posts.
AnalyticsSnapshots ==
    {Snapshot("missing", <<>>), Snapshot("ok", RankedPosts)}
    \cup {Snapshot("ok", recs) : recs \in UNION {[1..n -> PostPool] : n \in 1..MaxRows}}

\* The selections tried in the multiselects of SpecAnalytics.
AnalyticsPlatformSelections ==
    {{}, {"All"}, {"Instagram"}, {"Facebook", "Twitter"}, {"All", "Instagram"}}

AnalyticsStatusSelections ==
    {{}, {"All"}, {"Published"}, {"Draft"}, {"All", "Draft"}}

\* The views visited in SpecAnalytics.
AnalyticsViews == {"Calendar", "Analytics"}

\* Sessions that filter and analyse; the store comes from the snapshot.
InitAnalytics == InitWith(Todays, AnalyticsSnapshots)

NextAnalytics ==
    \/ Startup
    \/ Rerun
    \/ \E v \in AnalyticsViews : SelectView(v)
    \/ \E sel \in AnalyticsPlatformSelections : SetPlatformFilter(sel)
    \/ \E sel \in AnalyticsStatusSelections : SetStatusFilter(sel)

SpecAnalytics == InitAnalytics /\ [][NextAnalytics]_vars

(* ------------------------------- claims -------------------------------- *)

\* C3: a run started by putting a file into the uploader leaves the store and
\* the snapshot as they were (the store is non-empty when the run starts, so
\* the run seeds nothing), whether the file parses or not; and a step that
\* makes the store the records of an import file is a run started by the
\* Replace button.
C3_UploadAloneKeepsStore ==
    [][/\ (last_event' = "upload" /\ Len(posts_df) # 0)
            => (posts_df' = posts_df /\ snapshot' = snapshot)
       /\ (/\ posts_df' # posts_df
           /\ \E f \in ImportFiles :
                 f.valid /\ f.records # <<>> /\ to_dict(posts_df') = f.records)
            => last_event' = "replace"]_vars

\* C3 witness: a parsed, non-empty import file sits in the uploader after the
\* upload run, and the store still holds other posts.
C3_Witness ==
    /\ last_event = "upload"
    /\ uploaded_file.valid
    /\ uploaded_file.records # <<>>
    /\ Len(posts_df) # 0
    /\ to_dict(posts_df) # uploaded_file.records

\* C4: while no save_data call has returned False, after every script run the
\* snapshot holds exactly the records of the store, in the store's order.
C4_SnapshotIsStore ==
    (pc # "start" /\ ~save_failed)
        => (snapshot.state = "ok" /\ snapshot.data = to_dict(posts_df))

\* C4 witness: a post was created, later the store was replaced by an import,
\* every save succeeded.
C4_Witness ==
    /\ ~save_failed
    /\ creates = 1
    /\ last_event = "replace"
    /\ to_dict(posts_df) = ImportedPosts

\* C5: once the session is initialised, an empty store stays empty in every
\* script run that is not started by a Create Post submit or an import
\* Replace; no later run puts the demo posts into it.
C5_EmptyStoreStaysEmpty ==
    [][(pc # "start" /\ Len(posts_df) = 0 /\ last_event' \notin {"save_post", "replace"})
          => Len(posts_df') = 0]_vars

\* The position of a month on the line of all months.
month_index(y, m) == y * 12 + m

\* C6: a Previous Month click moves the displayed month to the month just
\* before it and a Next Month click to the month just after it, the year
\* changing at the January/December boundary; the displayed month stays in
\* 1..12; next then previous, and previous then next, give the same month back.
C6_MonthNavigation ==
    [][/\ last_event' = "previous_month"
            => month_index(calendar_year', calendar_month')
                   = month_index(calendar_year, calendar_month) - 1
       /\ last_event' = "next_month"
            => month_index(calendar_year', calendar_month')
                   = month_index(calendar_year, calendar_month) + 1
       /\ calendar_month' # 0
            => /\ calendar_month' \in 1..12
               /\ LET nxt == next_month(calendar_year', calendar_month')
                      prv == previous_month(calendar_year', calendar_month')
                  IN  /\ previous_month(nxt[1], nxt[2]) = <<calendar_year', calendar_month'>>
                      /\ next_month(prv[1], prv[2]) = <<calendar_year', calendar_month'>>
                      /\ nxt[2] \in 1..12
                      /\ prv[2] \in 1..12]_vars

\* C6 witness: a Previous Month click in January has moved the calendar to
\* December of the year before.
C6_Witness ==
    /\ last_event = "previous_month"
    /\ calendar_month = 12
    /\ calendar_year = today[1] - 1
    /\ today[2] \in {1, 2}

\* The number of days of a month, by the Gregorian rule.
month_length(y, m) ==
    IF m \in {4, 6, 9, 11} THEN 30
    ELSE IF m # 2 THEN 31
    ELSE IF (y % 400 = 0) \/ (y % 4 = 0 /\ y % 100 # 0) THEN 29
    ELSE 28

\* The cells of a grid, week after week.
RECURSIVE cells_of(_)
cells_of(weeks) == IF weeks = <<>> THEN <<>> ELSE Head(weeks) \o cells_of(Tail(weeks))

passes(r, col, selection) == "All" \in selection \/ r.data[col] \in selection

\* Whether filtered_df is the rows of the store that satisfy Keep, in the
\* store's order and with the store's content.
view_is(Keep(_)) ==
    /\ \A k \in 1..Len(filtered_df) :
          /\ filtered_df[k].index + 1 \in 1..Len(posts_df)
          /\ filtered_df[k] = posts_df[filtered_df[k].index + 1]
    /\ \A j, k \in 1..Len(filtered_df) :
          j < k => filtered_df[j].index < filtered_df[k].index
    /\ {filtered_df[k].index : k \in 1..Len(filtered_df)}
          = {posts_df[i].index : i \in {i \in 1..Len(posts_df) : Keep(posts_df[i])}}

\* The last run computed filtered_df from the store as it is now.
view_computed == rendered # "none" /\ last_event \notin {"save_post", "replace", "reset"}

C10_FilteredView ==
    [][/\ (view_computed' /\ platform_filter' # {} /\ status_filter' # {})
            => LET Keep(r) == /\ passes(r, "platform", platform_filter')
                              /\ passes(r, "status", status_filter')
                   rows == filtered_df'
                   store == posts_df'
               IN  /\ \A k \in 1..Len(rows) :
                         /\ rows[k].index + 1 \in 1..Len(store)
                         /\ rows[k] = store[rows[k].index + 1]
                   /\ \A j, k \in 1..Len(rows) : j < k => rows[j].index < rows[k].index
                   /\ {rows[k].index : k \in 1..Len(rows)}
                         = {store[i].index : i \in {i \in 1..Len(store) : Keep(store[i])}}
                   /\ (platform_filter' = {"All"} /\ status_filter' = {"All"})
                         => rows = store
       /\ (last_event' \in {"set_platform", "set_status"} /\ Len(posts_df) # 0)
            => posts_df' = posts_df]_vars

\* C10 witness: the store has Facebook, Instagram and Twitter posts, Instagram
\* alone is selected, and the view holds some of the posts.
C10_Witness ==
    /\ view_computed
    /\ last_event = "set_platform"
    /\ platform_filter = {"Instagram"}
    /\ status_filter = {"All"}
    /\ {"Facebook", "Instagram", "Twitter"} \subseteq unique(posts_df, "platform")
    /\ Len(filtered_df) > 0
    /\ Len(filtered_df) < Len(posts_df)

\* The Published rows of the filtered view.
published_rows == LET IsPublished(r) == r.data.status = "Published"
                  IN  SelectSeq(filtered_df, IsPublished)

\* C2: in the per-platform rollup, every row whose reach sum is 0 has a finite
\* engagement rate, neither infinite nor not-a-number.
C2_ZeroReachRateIsFinite ==
    \A k \in 1..Len(platform_rows) :
        platform_rows[k].reach = 0 => platform_rows[k].engagement_rate.kind = "finite"

\* The rows of df sorted by total_engagement, largest first, rows of equal
\* total_engagement in their order in df.
RECURSIVE stable_descending(_)
stable_descending(df) ==
    IF df = <<>> THEN <<>>
    ELSE LET n == Len(df)
             i == CHOOSE a \in 1..n :
                     /\ \A j \in 1..n : total_engagement(df[j]) <= total_engagement(df[a])
                     /\ \A j \in 1..(a - 1) : total_engagement(df[j]) < total_engagement(df[a])
         IN  <<df[i]>> \o stable_descending([k \in 1..(n - 1) |-> IF k < i THEN df[k] ELSE df[k + 1]])

\* C8: top_posts is the Published rows of the filtered view sorted by
\* likes + comments + shares, largest first, rows of equal total in their
\* original order, cut to the first 5.
C8_TopPostsStable ==
    rendered = "Analytics"
        => top_posts = SubSeq(stable_descending(published_rows), 1,
                              IF Len(published_rows) < 5 THEN Len(published_rows) ELSE 5)

\* The sum of one column over rollup rows.
RECURSIVE rollup_sum(_, _)
rollup_sum(rows, col) ==
    IF rows = <<>> THEN 0 ELSE Head(rows)[col] + rollup_sum(Tail(rows), col)

\* The sum of one column over DataFrame rows.
RECURSIVE rows_sum(_, _)
rows_sum(rows, col) ==
    IF rows = <<>> THEN 0 ELSE Head(rows).data[col] + rows_sum(Tail(rows), col)

\* C9: the per-platform rollup has exactly one row for each platform that has
\* a Published post in the filtered view, and for likes, comments, shares and
\* reach the sum over its rows is the sum over the Published posts of the
\* view; posts that are not Published add nothing.
C9_RollupSums ==
    rendered = "Analytics" =>
        /\ {platform_rows[k].platform : k \in 1..Len(platform_rows)}
              = {published_rows[i].data.platform : i \in 1..Len(published_rows)}
        /\ \A j, k \in 1..Len(platform_rows) :
              platform_rows[j].platform = platform_rows[k].platform => j = k
        /\ \A col \in {"likes", "comments", "shares", "reach"} :
              rollup_sum(platform_rows, col) = rows_sum(published_rows, col)

\* C9 witness: the view holds two Published posts of one platform and a post
\* that is not Published and has likes.
C9_Witness ==
    /\ rendered = "Analytics"
    /\ Len(platform_rows) >= 1
    /\ \E i \in 1..Len(filtered_df) :
          filtered_df[i].data.status # "Published" /\ filtered_df[i].data.likes > 0
    /\ \E i, j \in 1..Len(published_rows) :
          i # j /\ published_rows[i].data.platform = published_rows[j].data.platform

\* The platforms and the statuses that occur in a collection.
platforms_of(df) == {df[i].data.platform : i \in 1..Len(df)}

statuses_of(df) == {df[i].data.status : i \in 1..Len(df)}

\* A post has a metric that is not zero.
has_metrics(r) ==
    r.data.likes # 0 \/ r.data.comments # 0 \/ r.data.shares # 0 \/ r.data.reach # 0

\* The first run of a session that finds no saved post seeds the demo data.
seeds_at_startup == pc = "start" /\ Len(load_data(snapshot)) = 0

\* The seeded collection has a post of every status, and metrics that are not
\* zero on Published posts only.
demo_statuses_and_metrics(df) ==
    /\ statuses_of(df) = Range(Statuses)
    /\ \A i \in 1..Len(df) : has_metrics(df[i]) => df[i].data.status = "Published"

\* C11: the collection the demo seeding generates has at least one post of
\* each of the six platforms Facebook, Instagram, Twitter, LinkedIn, TikTok and
\* Pinterest, at least one post of each status Draft, Scheduled and Published,
\* and metrics other than zero only on Published posts.
C11_DemoSeedCoversAll ==
    [][seeds_at_startup
          => /\ platforms_of(posts_df') = Range(Platforms)
             /\ demo_statuses_and_metrics(posts_df')]_vars

\* A run that no widget event started renders the Calendar view of a session
\* that has run before.
renders_calendar_unasked ==
    pc # "start" /\ last_event' = "none" /\ rendered' = "Calendar"

\* C12: a render of the Calendar view that no user action started leaves
\* selected_date, the displayed year and month and the post store as they were
\* and asks for no further rerun.
C12_CalendarRenderIsPure ==
    [][renders_calendar_unasked
          => /\ selected_date' = selected_date
             /\ calendar_year' = calendar_year
             /\ calendar_month' = calendar_month
             /\ posts_df' = posts_df
             /\ pc' = "idle"]_vars

\* The rows of the filtered view scheduled on the day d of the displayed month.
scheduled_on(d) ==
    SelectSeq(filtered_df,
              LAMBDA r : r.data.scheduled_date
                            = calendar_year * 10000 + calendar_month * 100 + d)

\* The days of the displayed month.
month_days == 1..month_length(calendar_year, calendar_month)

\* The sum of day_post_count over day cells.
RECURSIVE cells_sum(_)
cells_sum(cells) ==
    IF cells = <<>> THEN 0 ELSE Head(cells).day_post_count + cells_sum(Tail(cells))

\* The sum over the days 1..n of the number of posts scheduled on the day.
RECURSIVE scheduled_through(_)
scheduled_through(n) ==
    IF n = 0 THEN 0 ELSE Len(scheduled_on(n)) + scheduled_through(n - 1)

\* month_end is the text of the last day of the displayed month.
month_end_is_last_day ==
    month_end = calendar_year * 10000 + calendar_month * 100
                   + month_length(calendar_year, calendar_month)

\* month_posts is the rows of the filtered view scheduled in the displayed
\* month, in their order.
month_posts_are_months_posts ==
    month_posts = SelectSeq(filtered_df,
                            LAMBDA r : \E d \in month_days : r \in Range(scheduled_on(d)))

\* Every rendered day cell is the cell of a day of the month and shows the
\* number of posts scheduled on that day.
cells_count_their_day ==
    \A k \in 1..Len(day_cells) :
        /\ day_cells[k].day \in month_days
        /\ day_cells[k].day_post_count = Len(scheduled_on(day_cells[k].day))

\* Every day that has a post has exactly one cell, and the cells' counts add
\* up to the number of posts scheduled in the month.
cells_partition_month_posts ==
    /\ \A d \in month_days :
          scheduled_on(d) # <<>>
            => \E k \in 1..Len(day_cells) :
                  /\ day_cells[k].day = d
                  /\ \A j \in 1..Len(day_cells) : day_cells[j].day = d => j = k
    /\ cells_sum(day_cells) = scheduled_through(month_length(calendar_year, calendar_month))

\* C13: when the grid of the displayed month has been built, month_end is the
\* last calendar day of that month (28, 29, 30 or 31), each post of the filtered
\* view scheduled on a day of the month is counted in exactly the cell of that
\* day, posts of other months are counted in no cell, and the cells' post
\* counts add up to the number of filtered posts scheduled in the month.
C13_DayCellsPartitionMonth ==
    cal # <<>> =>
        /\ month_end_is_last_day
        /\ month_posts_are_months_posts
        /\ cells_count_their_day
        /\ cells_partition_month_posts

====
